---- MODULE Spec2Model ----
(***************************************************************************)
(* Model of the document review entity (document_reviews/models.py) and    *)
(* of the document version request handlers                                *)
(* (documents/views/document_version_views.py).                            *)
(*                                                                         *)
(* Every operation records, in req, what it was called with, the ordered   *)
(* list of effects it had on its collaborators (database, audit events,    *)
(* notifications, task queue), how it ended and what it returned.          *)
(***************************************************************************)
EXTENDS Integers, Sequences, FiniteSets, TLC

VARIABLES reviews, nextPk, now, req

vars == <<reviews, nextPk, now, req>>

----------------------------------------------------------------------------
(* Bounds *)

MaxReviews == 2
MaxClock == 2
NumVersions == 3
MaxNameLen == 2

Users == {1, 2}
Documents == {1, 2}
Comments == {"good", "bad"}
Versions == 1..NumVersions

----------------------------------------------------------------------------
(* References to objects, effects and request records *)

Ref(type, id) == [type |-> type, id |-> id]

NoRef == Ref("none", 0)

Effect(kind, name, actor, action_object, target, text) ==
    [kind |-> kind, name |-> name, actor |-> actor,
     action_object |-> action_object, target |-> target, text |-> text]

Request(op, input, trace, outcome, result) ==
    [op |-> op, input |-> input, trace |-> trace, outcome |-> outcome,
     result |-> result]

NoRequest == Request("none", <<>>, <<>>, "returned", NoRef)

----------------------------------------------------------------------------
(* Review: fields and audit hooks *)

event_document_review_created == "document_review_created"
event_document_review_edited == "document_review_edited"
event_document_review_deleted == "document_review_deleted"

\* Class attributes of Review; the save and delete hooks do not read them.
Review_event_created_event == event_document_review_created
Review_event_edited_event == event_document_review_created

\* A Review instance: pk = 0 stands for an instance that has no row yet.
Instance(pk, document, user, addlcomments, submit_date) ==
    [pk |-> pk, document |-> document, user |-> user,
     addlcomments |-> addlcomments, submit_date |-> submit_date]

\* submit_date = DateTimeField(auto_now_add=True): the value written by a
\* save is the current time when the row is added, the instance's value
\* otherwise.
PreSaveSubmitDateAutoNow(add, value, time) == time

PreSaveSubmitDate(add, value, time) == IF add THEN time ELSE value

\* Arguments of the method_event decorators; "" is a key left out.
DeleteEventArgsOnSelf ==
    [event |-> event_document_review_deleted, actor |-> "",
     action_object |-> "", target |-> "self"]

DeleteEventArgs ==
    [event |-> event_document_review_deleted, actor |-> "",
     action_object |-> "", target |-> "document"]

SaveCreatedArgs ==
    [event |-> event_document_review_created, actor |-> "user",
     action_object |-> "document", target |-> "self"]

SaveEditedArgsAsCreated ==
    [event |-> event_document_review_created, actor |-> "",
     action_object |-> "document", target |-> "self"]

SaveEditedArgs ==
    [event |-> event_document_review_edited, actor |-> "",
     action_object |-> "document", target |-> "self"]

\* EventManager.get_event_arguments: 'self' is the instance, any other
\* name is an attribute of the instance, a key left out gives no object.
ResolveArgument(value, instance) ==
    CASE value = "" -> NoRef
      [] value = "self" -> Ref("review", instance.pk)
      [] value = "user" -> Ref("user", instance.user)
      [] value = "document" -> Ref("document", instance.document)

EventCommit(args, instance) ==
    Effect("event", args.event,
           ResolveArgument(args.actor, instance),
           ResolveArgument(args.action_object, instance),
           ResolveArgument(args.target, instance), <<>>)

DbEffect(kind, pk) == Effect(kind, "", NoRef, NoRef, Ref("review", pk), <<>>)

\* EventManagerSave: the row counts as new when the instance has no pk
\* before the wrapped save runs; the event is committed after the wrapped
\* save returned, with the arguments of that case.
SaveEvent(created, saved) ==
    IF created
    THEN EventCommit(SaveCreatedArgs, saved)
    ELSE EventCommit(SaveEditedArgs, saved)

\* EventManagerMethodAfter: the event is committed after the wrapped
\* delete returned.
DeleteTrace(instance) ==
    <<DbEffect("db_delete", instance.pk), EventCommit(DeleteEventArgs, instance)>>

Row(pk) == CHOOSE r \in reviews : r.pk = pk

Pks == {r.pk : r \in reviews}

\* Review.save of an instance that has no row: Model.save inserts it.
\* given is the submit_date the caller put on the instance (0: none).
SaveNew(document, user, comment, given, db_ok) ==
    /\ nextPk <= MaxReviews
    /\ LET instance == Instance(0, document, user, comment, given)
           created == instance.pk = 0
           saved == Instance(nextPk, document, user, comment,
                             PreSaveSubmitDate(TRUE, given, now))
       IN IF db_ok
          THEN /\ reviews' = reviews \cup {saved}
               /\ nextPk' = nextPk + 1
               /\ req' = Request("save", instance,
                                 <<DbEffect("db_insert", saved.pk),
                                   SaveEvent(created, saved)>>,
                                 "returned", Ref("review", saved.pk))
          ELSE /\ UNCHANGED <<reviews, nextPk>>
               /\ req' = Request("save", instance,
                                 <<DbEffect("db_error", 0)>>, "raised", NoRef)
    /\ UNCHANGED now

\* Fields declared editable=False, or made so by auto_now_add: no model
\* form carries them.
NonEditableFields == {"user", "submit_date"}

\* The fields the review edit form submits.
ReviewEditFields == {"addlcomments"}

\* The edit form applies the submitted data to the instance, field by
\* field, for the fields it carries; other submitted fields are ignored.
ApplyForm(instance, data) ==
    [f \in DOMAIN instance |->
        IF f \in DOMAIN data /\ f \in ReviewEditFields \ NonEditableFields
        THEN data[f] ELSE instance[f]]

\* Review.save of an instance loaded from its row and changed by the edit
\* form: Model.save updates the row.
SaveExisting(pk, data, db_ok) ==
    /\ pk \in Pks
    /\ LET old == Row(pk)
           instance == ApplyForm(old, data)
           created == instance.pk = 0
           saved == [instance EXCEPT !.submit_date =
                        PreSaveSubmitDate(FALSE, instance.submit_date, now)]
       IN IF db_ok
          THEN /\ reviews' = (reviews \ {old}) \cup {saved}
               /\ req' = Request("save", instance,
                                 <<DbEffect("db_update", saved.pk),
                                   SaveEvent(created, saved)>>,
                                 "returned", Ref("review", saved.pk))
          ELSE /\ UNCHANGED reviews
               /\ req' = Request("save", instance,
                                 <<DbEffect("db_error", pk)>>, "raised", NoRef)
    /\ UNCHANGED <<nextPk, now>>

\* Review.delete
Delete(pk, db_ok) ==
    /\ pk \in Pks
    /\ LET instance == Row(pk)
       IN IF db_ok
          THEN /\ reviews' = reviews \ {instance}
               /\ req' = Request("delete", instance, DeleteTrace(instance),
                                 "returned", NoRef)
          ELSE /\ UNCHANGED reviews
               /\ req' = Request("delete", instance,
                                 <<DbEffect("db_error", pk)>>, "raised", NoRef)
    /\ UNCHANGED <<nextPk, now>>

\* Time passes between requests.
Tick ==
    /\ now < MaxClock
    /\ now' = now + 1
    /\ UNCHANGED <<reviews, nextPk, req>>

----------------------------------------------------------------------------
(* Review.get_user_label *)

Chars == {"a", " "}

\* Strings are sequences of characters.
Strings(n) == UNION {[1..k -> Chars] : k \in 0..n}

Usernames == {<<"u">>, <<"a", "a">>}

RECURSIVE LStrip(_)
LStrip(s) ==
    IF s # <<>> /\ Head(s) = " " THEN LStrip(Tail(s)) ELSE s

RECURSIVE RStrip(_)
RStrip(s) ==
    IF s # <<>> /\ s[Len(s)] = " " THEN RStrip(SubSeq(s, 1, Len(s) - 1)) ELSE s

\* user.get_full_name(): first and last name joined by a space, with the
\* surrounding whitespace removed.
get_full_name(user) == LStrip(RStrip(user.first_name \o <<" ">> \o user.last_name))

get_user_label_always_full_name(user) == get_full_name(user)

get_user_label(user) ==
    IF get_full_name(user) # <<>>
    THEN get_full_name(user)
    ELSE user.username

GetUserLabel(user) ==
    /\ req' = Request("get_user_label", user, <<>>, "returned",
                      get_user_label(user))
    /\ UNCHANGED <<reviews, nextPk, now>>

----------------------------------------------------------------------------
(* DocumentVersionDownloadView.get_item_filename *)

\* Values the handler compares: strings, and the default False.
PyStr(s) == [t |-> "str", v |-> s]

PyFalse == [t |-> "bool", v |-> "False"]

ParamValues == {"true", "True", "TRUE", "1", "", "false"}

\* A QueryDict holding at most the preserve_extension parameter.
EmptyDict == [k \in {} |-> PyFalse]

QueryDicts ==
    {EmptyDict} \cup {[preserve_extension |-> PyStr(s)] : s \in ParamValues}

DictGet(dict, key, default) ==
    IF key \in DOMAIN dict THEN dict[key] ELSE default

ParsePreserveExtensionAnyCase(value) ==
    value \in {PyStr("true"), PyStr("True"), PyStr("TRUE")}

ParsePreserveExtension(value) ==
    value = PyStr("true") \/ value = PyStr("True")

PreserveExtensionBodyFirst(GET, POST) ==
    ParsePreserveExtension(
        DictGet(POST, "preserve_extension",
                DictGet(GET, "preserve_extension", PyFalse)))

PreserveExtension(GET, POST) ==
    ParsePreserveExtension(
        DictGet(GET, "preserve_extension",
                DictGet(POST, "preserve_extension", PyFalse)))

\* The default argument POST.get(...) is evaluated before GET.get is
\* called, whether or not the query string has the parameter. The result
\* is the keyword arguments item.get_rendered_string is called with.
GetItemFilename(GET, POST, item) ==
    /\ req' = Request("get_item_filename", [GET |-> GET, POST |-> POST],
                      <<Effect("call", "POST.get", NoRef, NoRef, NoRef,
                               <<"preserve_extension">>),
                        Effect("call", "GET.get", NoRef, NoRef, NoRef,
                               <<"preserve_extension">>),
                        Effect("call", "get_rendered_string", NoRef, NoRef,
                               Ref("version", item), <<>>)>>,
                      "returned",
                      [preserve_extension |-> PreserveExtension(GET, POST)])
    /\ UNCHANGED <<reviews, nextPk, now>>

----------------------------------------------------------------------------
(* DocumentVersionRevertView.view_action *)

\* The document a version belongs to.
DocumentOf(version) == IF version % 2 = 1 THEN 1 ELSE 2

\* Classes revert may raise, and those among them that derive from
\* Exception; SystemExit and KeyboardInterrupt derive from BaseException
\* only.
RaisedClasses == {"ValueError", "PermissionDenied", "SystemExit", "KeyboardInterrupt"}

ExceptionClassesCatchAll == RaisedClasses

ExceptionClasses == {"ValueError", "PermissionDenied"}

ExceptionTexts == {"storage offline", ""}

\* How a call of revert ends: it returns (raises = ""), or raises an
\* exception of a class, whose str() is text.
RevertOutcomes ==
    {[raises |-> "", text |-> ""]} \cup
    {[raises |-> c, text |-> t] : c \in RaisedClasses, t \in ExceptionTexts}

Message(level, text) == Effect("message", level, NoRef, NoRef, NoRef, text)

SuccessMessage == Message("success", <<"Document version reverted successfully">>)

ErrorMessageWithoutDescription(text) ==
    Message("error", <<"Error reverting document version">>)

\* 'Error reverting document version; %s' % exception
ErrorMessage(text) ==
    Message("error", <<"Error reverting document version; ", text>>)

RevertCall(user, version) ==
    Effect("call", "revert", Ref("user", user), NoRef, Ref("version", version), <<>>)

ViewAction(user, version, revert) ==
    /\ req' =
         IF revert.raises = ""
         THEN Request("view_action", [user |-> user, version |-> version, revert |-> revert],
                      <<RevertCall(user, version), SuccessMessage>>,
                      "returned", NoRef)
         ELSE IF revert.raises \in ExceptionClasses
         THEN Request("view_action", [user |-> user, version |-> version, revert |-> revert],
                      <<RevertCall(user, version), ErrorMessage(revert.text)>>,
                      "returned", NoRef)
         ELSE Request("view_action", [user |-> user, version |-> version, revert |-> revert],
                      <<RevertCall(user, version)>>, "raised", NoRef)
    /\ UNCHANGED <<reviews, nextPk, now>>

----------------------------------------------------------------------------
(* DocumentVersionUpdatePageCountView *)

RECURSIVE QuerysetOrder(_)
\* The selected versions in the order the queryset yields them.
QuerysetOrder(selection) ==
    IF selection = {} THEN <<>>
    ELSE LET v == CHOOSE x \in selection : \A y \in selection : x <= y
         IN <<v>> \o QuerysetOrder(selection \ {v})

\* ungettext(singular, plural, number)
ungettext(singular, plural, number) == IF number = 1 THEN singular ELSE plural

Title(msgid, object) == [msgid |-> msgid, object |-> object]

get_extra_context_unnamed(selection) ==
    [title |-> Title(
        ungettext("Recalculate the page count of the selected document version?",
                  "Recalculate the page count of the selected document versions?",
                  Cardinality(selection)), NoRef),
     object |-> NoRef]

\* The context: its title, and its 'object' key (NoRef: the key is absent).
get_extra_context(selection) ==
    LET queryset == QuerysetOrder(selection)
        result == [title |-> Title(
                      ungettext("Recalculate the page count of the selected document version?",
                                "Recalculate the page count of the selected document versions?",
                                Len(queryset)), NoRef),
                   object |-> NoRef]
    IN IF Len(queryset) = 1
       THEN [result EXCEPT
                !.object = Ref("version", queryset[1]),
                !.title = Title("Recalculate the page count of the document version: %s?",
                                Ref("version", queryset[1]))]
       ELSE result

GetExtraContext(selection) ==
    /\ req' = Request("get_extra_context", selection, <<>>, "returned",
                      get_extra_context(selection))
    /\ UNCHANGED <<reviews, nextPk, now>>

object_action_document_id(instance) ==
    Effect("enqueue", "task_update_page_count", NoRef, NoRef,
           Ref("version", DocumentOf(instance)), <<"version_id">>)

\* task_update_page_count.apply_async(kwargs={'version_id': instance.pk})
object_action(instance) ==
    Effect("enqueue", "task_update_page_count", NoRef, NoRef,
           Ref("version", instance), <<"version_id">>)

\* The confirmed bulk action calls object_action once for each object of
\* the selection.
MultipleObjectViewAction(selection) ==
    LET queryset == QuerysetOrder(selection)
    IN [i \in 1..Len(queryset) |-> object_action(queryset[i])]

UpdatePageCount(selection) ==
    /\ req' = Request("update_page_count", selection,
                      MultipleObjectViewAction(selection), "returned", NoRef)
    /\ UNCHANGED <<reviews, nextPk, now>>

----------------------------------------------------------------------------
(* DocumentVersionView.dispatch *)

Response(version) ==
    Effect("response", "preview", NoRef, NoRef, Ref("version", version), <<>>)

AddAsRecent(user, version) ==
    Effect("recent", "add_as_recent_document_for_user", Ref("user", user),
           NoRef, Ref("document", DocumentOf(version)), <<>>)

EventDocumentView(user, version) ==
    Effect("event", "document_view", Ref("user", user), NoRef,
           Ref("document", DocumentOf(version)), <<>>)

DispatchTraceSideEffectsFirst(user, version) ==
    <<AddAsRecent(user, version), EventDocumentView(user, version),
      Response(version)>>

\* The effects of a dispatch whose superclass dispatch returns.
DispatchTrace(user, version) ==
    <<Response(version), AddAsRecent(user, version),
      EventDocumentView(user, version)>>

\* super_ok: the superclass dispatch (permission check, object lookup,
\* response) returns; otherwise it raises and dispatch ends there.
Dispatch(user, version, super_ok) ==
    /\ req' =
         IF super_ok
         THEN Request("dispatch", [user |-> user, version |-> version],
                      DispatchTrace(user, version), "returned",
                      Ref("response", version))
         ELSE Request("dispatch", [user |-> user, version |-> version],
                      <<>>, "raised", NoRef)
    /\ UNCHANGED <<reviews, nextPk, now>>

----------------------------------------------------------------------------
Init ==
    /\ reviews = {}
    /\ nextPk = 1
    /\ now = 1
    /\ req = NoRequest

NextReview ==
    \/ \E d \in Documents, u \in Users, c \in Comments, g \in {0, 1},
          ok \in BOOLEAN : SaveNew(d, u, c, g, ok)
    \/ \E pk \in 1..MaxReviews, c \in Comments, u \in Users, ok \in BOOLEAN :
          SaveExisting(pk, [addlcomments |-> c, user |-> u], ok)
    \/ \E pk \in 1..MaxReviews, ok \in BOOLEAN : Delete(pk, ok)
    \/ Tick

SpecReview == Init /\ [][NextReview]_vars

NextViews ==
    \/ \E f \in Strings(MaxNameLen), l \in Strings(MaxNameLen), n \in Usernames :
          GetUserLabel([first_name |-> f, last_name |-> l, username |-> n])
    \/ \E q \in QueryDicts, b \in QueryDicts, v \in Versions :
          GetItemFilename(q, b, v)
    \/ \E u \in Users, v \in Versions, r \in RevertOutcomes : ViewAction(u, v, r)
    \/ \E sel \in SUBSET Versions : GetExtraContext(sel)
    \/ \E sel \in SUBSET Versions : UpdatePageCount(sel)
    \/ \E u \in Users, v \in Versions, ok \in BOOLEAN : Dispatch(u, v, ok)

SpecViews == Init /\ [][NextViews]_vars

----------------------------------------------------------------------------
(* Properties *)

Indices(kind) == {i \in DOMAIN req.trace : req.trace[i].kind = kind}

Shown(level) ==
    \E i \in Indices("message") : req.trace[i].name = level

\* C1 as stated: whatever revert does, view_action returns normally; when
\* revert returns, a success notification and no error notification is
\* shown; when revert raises any exception, an error notification with the
\* exception's description and no success notification is shown.
C1_NoExceptionEscapes ==
    req.op = "view_action" =>
        /\ req.outcome = "returned"
        /\ req.input.revert.raises = "" => Shown("success") /\ ~Shown("error")
        /\ req.input.revert.raises # "" =>
              /\ ~Shown("success")
              /\ \E i \in Indices("message") :
                    /\ req.trace[i].name = "error"
                    /\ \E j \in DOMAIN req.trace[i].text :
                          req.trace[i].text[j] = req.input.revert.text

\* C1 amended: view_action calls revert for the requesting user; when
\* revert returns, or raises an exception that derives from Exception, the
\* call returns normally, with a success notification and no error
\* notification in the first case and an error notification with the
\* exception's description and no success notification in the second; an
\* exception that derives from BaseException only (SystemExit,
\* KeyboardInterrupt) leaves view_action, and no notification is shown.
C1_ExceptionsReported ==
    req.op = "view_action" =>
        /\ req.trace[1].kind = "call" /\ req.trace[1].name = "revert"
        /\ req.trace[1].actor = Ref("user", req.input.user)
        /\ req.trace[1].target = Ref("version", req.input.version)
        /\ req.input.revert.raises = "" =>
              req.outcome = "returned" /\ Shown("success") /\ ~Shown("error")
        /\ req.input.revert.raises \in {"ValueError", "PermissionDenied"} =>
              /\ req.outcome = "returned"
              /\ ~Shown("success")
              /\ \E i \in Indices("message") :
                    /\ req.trace[i].name = "error"
                    /\ \E j \in DOMAIN req.trace[i].text :
                          req.trace[i].text[j] = req.input.revert.text
        /\ req.input.revert.raises \in {"SystemExit", "KeyboardInterrupt"} =>
              req.outcome = "raised" /\ Indices("message") = {}

C1_Witness ==
    /\ req.op = "view_action"
    /\ req.input.revert = [raises |-> "ValueError", text |-> "storage offline"]
    /\ req.outcome = "returned"
    /\ Shown("error")

\* C2: a delete of a review that completes removes the row and then emits
\* exactly one "review deleted" event whose target is the review's
\* document; a delete that fails emits no event and leaves the row.
C2_DeleteEmitsOneEventAfter ==
    req.op = "delete" =>
        /\ req.outcome = "returned" =>
              /\ req.input.pk \notin Pks
              /\ Cardinality(Indices("event")) = 1
              /\ Cardinality(Indices("db_delete")) = 1
              /\ \A i \in Indices("event") :
                    /\ req.trace[i].name = "document_review_deleted"
                    /\ req.trace[i].target = Ref("document", req.input.document)
                    /\ \A j \in Indices("db_delete") : j < i
        /\ req.outcome = "raised" =>
              /\ req.input.pk \in Pks
              /\ Indices("event") = {}
              /\ Indices("db_delete") = {}

C2_Witness ==
    /\ req.op = "delete"
    /\ req.outcome = "returned"
    /\ req.input.document = 2
    /\ Indices("event") # {}

\* C3: a save that completes emits exactly one event: the "review created"
\* event, with the review's user as actor, its document as action object
\* and the review as target, when it inserted a row; the "review edited"
\* event, with the document as action object and the review as target,
\* when it updated a row. A save that fails emits none.
C3_SaveEmitsCreatedOrEdited ==
    req.op = "save" =>
        /\ req.outcome = "returned" =>
              /\ Cardinality(Indices("event")) = 1
              /\ Cardinality(Indices("db_insert") \cup Indices("db_update")) = 1
              /\ \A i \in Indices("event") :
                    /\ req.trace[i].action_object = Ref("document", req.input.document)
                    /\ req.trace[i].target = req.result
                    /\ req.result.type = "review" /\ req.result.id \in Pks
                    /\ Indices("db_insert") # {} =>
                          /\ req.trace[i].name = "document_review_created"
                          /\ req.trace[i].actor = Ref("user", req.input.user)
                    /\ Indices("db_update") # {} =>
                          /\ req.trace[i].name = "document_review_edited"
                          /\ req.trace[i].target = Ref("review", req.input.pk)
        /\ req.outcome = "raised" => Indices("event") = {}

C3_Witness ==
    /\ req.op = "save"
    /\ req.outcome = "returned"
    /\ Indices("db_update") # {}
    /\ \E i \in Indices("event") : req.trace[i].name = "document_review_edited"

\* C4: the preserve-extension flag passed to get_rendered_string is true
\* exactly when the request's preserve_extension parameter (the query
\* string's, else the form body's) is the string "true" or "True"; it is
\* false for any other string and for a parameter missing from both.
C4_FlagOnlyForTrueLiterals ==
    req.op = "get_item_filename" =>
        LET GET == req.input.GET
            POST == req.input.POST
            given == IF "preserve_extension" \in DOMAIN GET THEN {GET.preserve_extension.v}
                     ELSE IF "preserve_extension" \in DOMAIN POST THEN {POST.preserve_extension.v}
                     ELSE {}
        IN req.result.preserve_extension = (given \in {{"true"}, {"True"}})

C4_Witness ==
    /\ req.op = "get_item_filename"
    /\ "preserve_extension" \in DOMAIN req.input.GET
    /\ req.input.GET.preserve_extension.v = "TRUE"
    /\ req.result.preserve_extension = FALSE

\* C5: the bulk page-count action over N selected versions enqueues N
\* jobs: one for each selected version, carrying that version's id as the
\* version_id keyword argument, and none for any other version.
C5_OneJobPerSelectedVersion ==
    req.op = "update_page_count" =>
        /\ Len(req.trace) = Cardinality(req.input)
        /\ Indices("enqueue") = DOMAIN req.trace
        /\ \A i \in DOMAIN req.trace :
              /\ req.trace[i].name = "task_update_page_count"
              /\ req.trace[i].text = <<"version_id">>
              /\ req.trace[i].target.type = "version"
              /\ req.trace[i].target.id \in req.input
        /\ \A v \in req.input :
              Cardinality({i \in DOMAIN req.trace : req.trace[i].target.id = v}) = 1

C5_Witness ==
    /\ req.op = "update_page_count"
    /\ Cardinality(req.input) >= 2
    /\ Len(req.trace) = Cardinality(req.input)

\* C6 as stated: a preview request that is served marks the version's
\* document as recently accessed for the requesting user and emits one
\* "document viewed" event, both before the response is produced.
C6_SideEffectsBeforeResponse ==
    req.op = "dispatch" /\ req.outcome = "returned" =>
        /\ Cardinality(Indices("event")) = 1
        /\ Indices("recent") # {}
        /\ \A k \in Indices("response") :
              \A i \in Indices("recent") \cup Indices("event") : i < k

\* C6 amended: a preview request whose superclass dispatch returns marks
\* the version's document as recently accessed for the requesting user and
\* emits one "document viewed" event with the requesting user as actor and
\* that document as target; both happen after the superclass dispatch has
\* produced the response, the marking first, and the response is then
\* returned. When the superclass dispatch raises, neither happens.
C6_SideEffectsAfterResponse ==
    req.op = "dispatch" =>
        /\ req.outcome = "returned" =>
              /\ req.result = Ref("response", req.input.version)
              /\ Cardinality(Indices("response")) = 1
              /\ Cardinality(Indices("recent")) = 1
              /\ Cardinality(Indices("event")) = 1
              /\ \A k \in Indices("response"), i \in Indices("recent"),
                    j \in Indices("event") :
                    /\ k < i /\ i < j
                    /\ req.trace[i].actor = Ref("user", req.input.user)
                    /\ req.trace[i].target.type = "document"
                    /\ req.trace[j].name = "document_view"
                    /\ req.trace[j].actor = Ref("user", req.input.user)
                    /\ req.trace[j].target = req.trace[i].target
                    /\ req.trace[j].target.id = IF req.input.version % 2 = 1 THEN 1 ELSE 2
        /\ req.outcome = "raised" => req.trace = <<>>

C6_Witness ==
    /\ req.op = "dispatch"
    /\ req.outcome = "returned"
    /\ req.input.version = 2
    /\ Indices("event") # {}

\* C7: the creating save sets the review's submission timestamp to the
\* current time, whatever the instance carried; every later save leaves
\* the row's timestamp, user and document as they were.
C7_TimestampAndUserFixed ==
    [][/\ \A r \in reviews : \A n \in reviews' :
             n.pk = r.pk =>
                /\ n.submit_date = r.submit_date
                /\ n.user = r.user
                /\ n.document = r.document
       /\ \A n \in reviews' : n.pk \notin Pks => n.submit_date = now]_vars

C7_Witness ==
    /\ req.op = "save"
    /\ req.outcome = "returned"
    /\ req.input.pk # 0
    /\ \E r \in reviews :
          /\ r.pk = req.input.pk
          /\ r.submit_date < now
          /\ r.addlcomments = "bad"

\* C8: with exactly one version selected the confirmation title is the
\* singular wording that names that version, and that version is the
\* context object; with any other number selected the title is the plural
\* wording, names nothing, and there is no context object.
C8_TitleSingularNamesObject ==
    req.op = "get_extra_context" =>
        IF Cardinality(req.input) = 1
        THEN \A v \in req.input :
                /\ req.result.title.msgid =
                      "Recalculate the page count of the document version: %s?"
                /\ req.result.title.object = Ref("version", v)
                /\ req.result.object = Ref("version", v)
        ELSE /\ req.result.title.msgid =
                   "Recalculate the page count of the selected document versions?"
             /\ req.result.title.object = NoRef
             /\ req.result.object = NoRef

C8_Witness ==
    /\ req.op = "get_extra_context"
    /\ req.input = {2}
    /\ req.result.object = Ref("version", 2)

\* C9: get_user_label returns the user's full name when that is not empty
\* and the username otherwise.
C9_FullNameElseUsername ==
    req.op = "get_user_label" =>
        LET full == get_full_name(req.input)
        IN /\ full # <<>> => req.result = full
           /\ full = <<>> => req.result = req.input.username
           /\ req.result # <<>>

C9_Witness ==
    /\ req.op = "get_user_label"
    /\ req.input.first_name = <<" ">>
    /\ req.input.last_name = <<>>
    /\ req.result = req.input.username

====
